---- MODULE Spec2Model ----
(***************************************************************************)
(* The MongoDB replica-set autoscalers of the repository:                  *)
(*   src/autoscaler_Test.py            (specifications Spec, SpecX)        *)
(*   src/autoscale/autoscaler3_Test.py (specifications Spec3, Spec3X)      *)
(* Each external call (Kubernetes API, MongoDB admin command) is one step  *)
(* of the controller; pc is the controller's position in its code.  The    *)
(* StatefulSet and the replica set are the environment; their state is     *)
(* sts, ready_pods and cfg.  A member's host                               *)
(*   mongo-<k>.mongo.default.svc.cluster.local:27017                       *)
(* is represented by its pod ordinal k (suffix and port are constants).    *)
(***************************************************************************)
EXTENDS Integers, Sequences, FiniteSets, TLC

VARIABLES
    sts,                        \* StatefulSet spec.replicas held by Kubernetes
    ready_pods,                 \* pods mongo-0 .. mongo-(ready_pods-1) are addressable
    cfg,                        \* replica-set configuration held by the store
    ext,                        \* number of reconfigures made by other writers
    current_k8s_replicas,       \* global (autoscaler_Test) / local (autoscaler3_Test)
    current_mongodb_replicas,   \* global (autoscaler_Test) / local (autoscaler3_Test)
    pc,                         \* position of the controller
    ret,                        \* where remove_last_replica_from_mongo returns to
    new_replicas_count,         \* argument of scale_up / scale_down; new_replicas
    new_member_config,          \* local of add_replica_to_mongo
    current_config,             \* configuration fetched, then edited, by add / remove
    fetched,                    \* history: that configuration as it was fetched
    tick,                       \* history: kind and starting counts of the running iteration
    calls,                      \* history: external mutations issued in this iteration
    last_reconfig,              \* history: the last replSetReconfig submitted
    start                       \* history: the counts the program started with

vars == << sts, ready_pods, cfg, ext, current_k8s_replicas, current_mongodb_replicas,
           pc, ret, new_replicas_count, new_member_config, current_config,
           fetched, tick, calls, last_reconfig, start >>

env_vars == << sts, ready_pods, cfg, ext >>
local_vars == << ret, new_replicas_count, new_member_config, current_config >>
hist_vars == << fetched, tick, calls, last_reconfig >>

----------------------------------------------------------------------------
\* Bounds of the model
MaxReplicas == 6
MaxVersion == 4
MaxExternal == 1

\* Literals of the source
MinMembers == 3
MinReplicas == 3
DriftMinReplicas == 3
RandomLow == 0
RandomHigh == 1

----------------------------------------------------------------------------
\* Data

Member(i, h) == [id |-> i, host |-> h]

RECURSIVE MembersOf(_)
MembersOf(ids) ==
    IF ids = << >> THEN << >>
    ELSE << Member(Head(ids), Head(ids)) >> \o MembersOf(Tail(ids))

Ids(members) == { members[i].id : i \in 1..Len(members) }
Hosts(members) == { members[i].host : i \in 1..Len(members) }

\* Member lists a replica set may hold when the controller starts: host ordinal = _id;
\* dense, below three members, with a gap left by an earlier manual removal, and
\* in an order other than increasing _id.
InitIdLists ==
    { <<0, 1>>, <<0, 1, 2>>, <<0, 1, 2, 3>>, <<0, 1, 2, 3, 4>>,
      <<0, 1, 3>>, <<0, 3, 1, 2>> }

InitVersions == {1, 2}

\* Replica counts the StatefulSet may declare when the controller starts.
InitReplicas == 1..5

NoConfig == [version |-> 0, members |-> << >>]
NoMember == Member(-2, -2)
NoReconfig ==
    [kind |-> "none", base |-> NoConfig, submitted |-> NoConfig, held |-> NoConfig,
     force |-> FALSE, host_ready |-> FALSE, outcome |-> "none"]
NoTick == [kind |-> "none", sts |-> 0, members |-> 0, version |-> 0, hosts |-> {}]

----------------------------------------------------------------------------
\* The environment: the data store's admin interface and the StatefulSet

\* A configuration the store can hold: at least one member, no negative _id, _id
\* and host unique.
ValidMembers(members) ==
    /\ Len(members) >= 1
    /\ \A i \in 1..Len(members) : members[i].id >= 0
    /\ Cardinality(Ids(members)) = Len(members)
    /\ Cardinality(Hosts(members)) = Len(members)

\* The answers replSetReconfig can give to a submitted configuration.  The call can
\* fail before the store decides ("Unavailable").  Without force the store accepts
\* only a configuration built on the version it holds (submitted version = held
\* version + 1); with force it skips that check.  It rejects a malformed configuration.
StoreOutcomes(submitted, force) ==
    {"Unavailable"} \cup
    ( IF ~force /\ submitted.version # cfg.version + 1 THEN {"VersionConflict"}
      ELSE IF ~ValidMembers(submitted.members) THEN {"InvalidConfig"}
      ELSE IF cfg.version >= MaxVersion THEN {}
      ELSE {"ok"} )

\* The versions the store may give an accepted configuration: the submitted one, or,
\* with force, one it picks above the version it holds.
StoreVersions(submitted, force) ==
    IF force THEN { v \in (cfg.version + 1)..(cfg.version + 2) : v <= MaxVersion }
    ELSE {submitted.version}

\* One replSetReconfig call: the store's state after it and the record of the call.
ReplSetReconfig(kind, submitted, force, outcome) ==
    /\ outcome \in StoreOutcomes(submitted, force)
    /\ IF outcome = "ok"
       THEN \E v \in StoreVersions(submitted, force) :
                cfg' = [version |-> v, members |-> submitted.members]
       ELSE cfg' = cfg
    /\ last_reconfig' =
           [kind |-> kind, base |-> fetched, submitted |-> submitted, held |-> cfg,
            force |-> force,
            host_ready |-> /\ Len(submitted.members) >= 1
                           /\ submitted.members[Len(submitted.members)].host < ready_pods,
            outcome |-> outcome]
    /\ calls' = Append(calls, [op |-> "replSetReconfig", n |-> Len(submitted.members),
                               ok |-> outcome = "ok"])

\* The StatefulSet controller starts the pods of a scaled-up set in ordinal order and
\* stops the pods of a scaled-down set in reverse order.
PodStarted ==
    /\ ready_pods < sts
    /\ ready_pods' = ready_pods + 1
    /\ UNCHANGED << sts, cfg, ext, current_k8s_replicas, current_mongodb_replicas,
                    pc, local_vars, hist_vars, start >>

PodStopped ==
    /\ ready_pods > sts
    /\ ready_pods' = ready_pods - 1
    /\ UNCHANGED << sts, cfg, ext, current_k8s_replicas, current_mongodb_replicas,
                    pc, local_vars, hist_vars, start >>

\* Another writer (an operator's rs.reconfig, rs.add) replaces the configuration.
ExternalMember == Member(9, 9)
ExternalReconfig ==
    /\ pc # "crashed"
    /\ ext < MaxExternal
    /\ cfg.version < MaxVersion
    /\ ext' = ext + 1
    /\ \E add \in BOOLEAN :
         cfg' = [version |-> cfg.version + 1,
                 members |-> IF add /\ ExternalMember.id \notin Ids(cfg.members)
                             THEN Append(cfg.members, ExternalMember)
                             ELSE cfg.members]
    /\ UNCHANGED << sts, ready_pods, current_k8s_replicas, current_mongodb_replicas,
                    pc, local_vars, hist_vars, start >>

----------------------------------------------------------------------------
\* src/autoscaler_Test.py

\* History: an iteration of a loop of auto_scale begins.
BeginTick(kind) ==
    /\ tick' = [kind |-> kind, sts |-> sts, members |-> Len(cfg.members),
                version |-> cfg.version, hosts |-> Hosts(cfg.members)]
    /\ fetched' = NoConfig
    /\ last_reconfig' = NoReconfig

\* scale_statefulset(new_replicas): the effect of a successful patch
ScaleStatefulset(new_replicas) ==
    /\ sts' = new_replicas
    /\ current_k8s_replicas' = new_replicas

\* History: the entries of calls
PatchCall(new_replicas) == [op |-> "patch", n |-> new_replicas, ok |-> TRUE]
FetchCall(config) == [op |-> "fetch", n |-> config.version, ok |-> TRUE]

\* get_replica_count() at the start of auto_scale; an API error is not caught
AutoScaleGetReplicaCount ==
    /\ pc = "start"
    /\ \E ok \in BOOLEAN :
         IF ok THEN current_k8s_replicas' = sts /\ pc' = "get_mongo"
         ELSE pc' = "crashed" /\ UNCHANGED current_k8s_replicas
    /\ UNCHANGED << env_vars, current_mongodb_replicas, local_vars, hist_vars, start >>

\* get_mongo_replica_count() at the start of auto_scale; an error yields -1
AutoScaleGetMongoReplicaCount ==
    /\ pc = "get_mongo"
    /\ \E ok \in BOOLEAN :
         current_mongodb_replicas' = IF ok THEN Len(cfg.members) ELSE -1
    /\ pc' = "drift"
    /\ UNCHANGED << env_vars, current_k8s_replicas, local_vars, hist_vars, start >>

\* the replica count the mismatch loop patches the StatefulSet to
DriftTarget ==
    LET difference == current_k8s_replicas - current_mongodb_replicas
        new_k8s_replicas == current_k8s_replicas - difference
    IN  IF new_k8s_replicas >= DriftMinReplicas THEN new_k8s_replicas
        ELSE DriftMinReplicas

\* mismatch loop, branch current_k8s_replicas > current_mongodb_replicas
DriftScaleStatefulset ==
    /\ pc = "drift"
    /\ current_k8s_replicas # current_mongodb_replicas
    /\ current_k8s_replicas > current_mongodb_replicas
    /\ BeginTick("drift")
    /\ \E ok \in BOOLEAN :
         IF ok
         THEN /\ ScaleStatefulset(DriftTarget)
              /\ calls' = << PatchCall(DriftTarget) >>
              /\ pc' = "drift"
         ELSE /\ pc' = "crashed"
              /\ calls' = << >>
              /\ UNCHANGED << sts, current_k8s_replicas >>
    /\ UNCHANGED << ready_pods, cfg, ext, current_mongodb_replicas, local_vars,
                    start >>

\* mismatch loop, branch current_mongodb_replicas > current_k8s_replicas
DriftRemove ==
    /\ pc = "drift"
    /\ current_k8s_replicas # current_mongodb_replicas
    /\ ~(current_k8s_replicas > current_mongodb_replicas)
    /\ current_mongodb_replicas > current_k8s_replicas
    /\ BeginTick("drift")
    /\ calls' = << >>
    /\ ret' = "drift"
    /\ pc' = "remove_get_config"
    /\ UNCHANGED << env_vars, current_k8s_replicas, current_mongodb_replicas,
                    new_replicas_count, new_member_config, current_config, start >>

\* the mismatch loop ends when the two cached counts are equal
DriftExit ==
    /\ pc = "drift"
    /\ current_k8s_replicas = current_mongodb_replicas
    /\ pc' = "loop"
    /\ UNCHANGED << env_vars, current_k8s_replicas, current_mongodb_replicas,
                    local_vars, hist_vars, start >>

\* (mutation: the removal keeps every member)
RemovedConfigKeepsAll(config) ==
    [version |-> config.version + 1, members |-> config.members]

\* remove_last_replica_from_mongo: the configuration without the member whose _id
\* is that of the last member of the list, one version up
RemovedConfig(config) ==
    LET members == config.members
        last_member_id == members[Len(members)].id
    IN  [version |-> config.version + 1,
         members |-> SelectSeq(members, LAMBDA member : member.id # last_member_id)]

\* (mutation: the minimum check off by one)
AtMinimumOffByOne(members) == Len(members) < MinMembers

\* remove_last_replica_from_mongo refuses at or below this many members
AtMinimum(members) == Len(members) <= MinMembers

\* remove_last_replica_from_mongo up to its reconfigure: replSetGetConfig and the
\* minimum check; any exception is caught and the function returns
RemoveGetConfig ==
    /\ pc = "remove_get_config"
    /\ \E ok \in BOOLEAN :
         IF ~ok
         THEN pc' = ret /\ UNCHANGED << current_config, fetched, calls >>
         ELSE /\ fetched' = cfg
              /\ calls' = Append(calls, FetchCall(cfg))
              /\ IF AtMinimum(cfg.members)
                 THEN pc' = ret /\ current_config' = NoConfig
                 ELSE pc' = "remove_reconfig" /\ current_config' = RemovedConfig(cfg)
    /\ UNCHANGED << env_vars, current_k8s_replicas, current_mongodb_replicas, ret,
                    new_replicas_count, new_member_config, tick, last_reconfig, start >>

\* remove_last_replica_from_mongo: replSetReconfig and the cached count
RemoveReconfig ==
    /\ pc = "remove_reconfig"
    /\ \E outcome \in StoreOutcomes(current_config, FALSE) :
         /\ ReplSetReconfig("remove", current_config, FALSE, outcome)
         /\ current_mongodb_replicas' =
                IF outcome = "ok" THEN current_mongodb_replicas - 1
                ELSE current_mongodb_replicas
    /\ pc' = ret
    /\ current_config' = NoConfig
    /\ UNCHANGED << sts, ready_pods, ext, current_k8s_replicas, ret,
                    new_replicas_count, new_member_config, fetched, tick, start >>

\* scale_down(new_replicas_count) up to the call of remove_last_replica_from_mongo
scale_down(n) ==
    /\ BeginTick("scale_down")
    /\ new_replicas_count' = n
    /\ IF n < MinReplicas
       THEN /\ pc' = "loop"
            /\ calls' = << >>
            /\ UNCHANGED << sts, current_k8s_replicas, ret >>
       ELSE \E ok \in BOOLEAN :
              IF ok
              THEN /\ ScaleStatefulset(n)
                   /\ calls' = << PatchCall(n) >>
                   /\ ret' = "loop"
                   /\ pc' = "remove_get_config"
              ELSE /\ pc' = "crashed"
                   /\ calls' = << >>
                   /\ UNCHANGED << sts, current_k8s_replicas, ret >>
    /\ UNCHANGED << ready_pods, cfg, ext, current_mongodb_replicas,
                    new_member_config, current_config, start >>

\* scale_up(new_replicas_count) up to the call of add_replica_to_mongo
scale_up(n) ==
    /\ n <= MaxReplicas
    /\ BeginTick("scale_up")
    /\ new_replicas_count' = n
    /\ \E ok \in BOOLEAN :
         IF ok
         THEN /\ ScaleStatefulset(n)
              /\ calls' = << PatchCall(n) >>
              /\ pc' = "add_get_config"
         ELSE /\ pc' = "crashed"
              /\ calls' = << >>
              /\ UNCHANGED << sts, current_k8s_replicas >>
    /\ UNCHANGED << ready_pods, cfg, ext, current_mongodb_replicas, ret,
                    new_member_config, current_config, start >>

\* one iteration of the scaling loop: random_int picks the direction.  The source
\* reads "random_int = 0 #random.randint(0, 1)"; random_int is drawn from randint's
\* range RandomLow..RandomHigh, so that the branch calling scale_up is taken too.
AutoScaleLoop(random_int) ==
    /\ pc = "loop"
    /\ IF random_int = 0 THEN scale_down(current_k8s_replicas - 1)
       ELSE scale_up(current_k8s_replicas + 1)

\* (mutation: the new member numbered one past the cached count)
NewMemberConfigSkip(n) == Member(current_mongodb_replicas + 1, n - 1)

\* add_replica_to_mongo: the member it builds before it fetches the configuration
NewMemberConfig(n) == Member(current_mongodb_replicas, n - 1)

\* add_replica_to_mongo: the fetched configuration with the member appended, one
\* version up
AddedConfig(config, member) ==
    [version |-> config.version + 1, members |-> Append(config.members, member)]

\* add_replica_to_mongo up to its reconfigure; replSetGetConfig is outside the try
AddGetConfig ==
    /\ pc = "add_get_config"
    /\ new_member_config' = NewMemberConfig(new_replicas_count)
    /\ \E ok \in BOOLEAN :
         IF ok
         THEN /\ fetched' = cfg
              /\ calls' = Append(calls, FetchCall(cfg))
              /\ current_config' = AddedConfig(cfg, NewMemberConfig(new_replicas_count))
              /\ pc' = "add_reconfig"
         ELSE /\ pc' = "crashed"
              /\ UNCHANGED << current_config, fetched, calls >>
    /\ UNCHANGED << env_vars, current_k8s_replicas, current_mongodb_replicas, ret,
                    new_replicas_count, tick, last_reconfig, start >>

\* (mutation: the cached count raised before the reconfigure is known to have succeeded)
AddReconfigCountsFirst ==
    /\ pc = "add_reconfig"
    /\ \E outcome \in StoreOutcomes(current_config, FALSE) :
         /\ ReplSetReconfig("add", current_config, FALSE, outcome)
         /\ current_mongodb_replicas' = current_mongodb_replicas + 1
    /\ pc' = "loop"
    /\ current_config' = NoConfig
    /\ new_member_config' = NoMember
    /\ UNCHANGED << sts, ready_pods, ext, current_k8s_replicas, ret,
                    new_replicas_count, fetched, tick, start >>

\* add_replica_to_mongo: replSetReconfig and the cached count; an error is caught
AddReconfig ==
    /\ pc = "add_reconfig"
    /\ \E outcome \in StoreOutcomes(current_config, FALSE) :
         /\ ReplSetReconfig("add", current_config, FALSE, outcome)
         /\ current_mongodb_replicas' =
                IF outcome = "ok" THEN current_mongodb_replicas + 1
                ELSE current_mongodb_replicas
    /\ pc' = "loop"
    /\ current_config' = NoConfig
    /\ new_member_config' = NoMember
    /\ UNCHANGED << sts, ready_pods, ext, current_k8s_replicas, ret,
                    new_replicas_count, fetched, tick, start >>

\* the state of the environment and of the history when a program starts, with the
\* controller's variables at the values they have before auto_scale assigns them
InitAt(first) ==
    /\ sts \in InitReplicas
    /\ ready_pods = sts
    /\ \E ids \in InitIdLists, v \in InitVersions :
         cfg = [version |-> v, members |-> MembersOf(ids)]
    /\ ext = 0
    /\ current_k8s_replicas = 0
    /\ current_mongodb_replicas = 0
    /\ pc = first
    /\ ret = "loop"
    /\ new_replicas_count = 0
    /\ new_member_config = NoMember
    /\ current_config = NoConfig
    /\ fetched = NoConfig
    /\ tick = NoTick
    /\ calls = << >>
    /\ last_reconfig = NoReconfig
    /\ start = [sts |-> sts, members |-> Len(cfg.members)]

Init == InitAt("start")

Controller ==
    \/ AutoScaleGetReplicaCount
    \/ AutoScaleGetMongoReplicaCount
    \/ DriftScaleStatefulset
    \/ DriftRemove
    \/ DriftExit
    \/ \E random_int \in RandomLow..RandomHigh : AutoScaleLoop(random_int)
    \/ RemoveGetConfig
    \/ RemoveReconfig
    \/ AddGetConfig
    \/ AddReconfig

Next == Controller \/ PodStarted \/ PodStopped

Spec == Init /\ [][Next]_vars

SpecX == Init /\ [][Next \/ ExternalReconfig]_vars

----------------------------------------------------------------------------
\* src/autoscale/autoscaler3_Test.py

\* the "version": 1 both reconfigures write, and the 1 of max(1, new_replicas - 1)
FixedVersion == 1
MinFinalReplicas == 1

\* [{"_id": i, "host": member["host"]} for i, member in enumerate(members)]
RECURSIVE Enumerate(_, _)
Enumerate(members, i) ==
    IF members = << >> THEN << >>
    ELSE << Member(i, Head(members).host) >> \o Enumerate(Tail(members), i + 1)

\* get_replica_count() and get_mongo_replica_count() at the start of auto_scale,
\* and the comparison that follows: on a mismatch auto_scale prints and returns
Auto3Start ==
    /\ pc = "start3"
    /\ \E ok \in BOOLEAN :
         IF ok THEN current_k8s_replicas' = sts /\ pc' = "get_mongo3"
         ELSE pc' = "crashed" /\ UNCHANGED current_k8s_replicas
    /\ UNCHANGED << env_vars, current_mongodb_replicas, local_vars, hist_vars, start >>

\* (mutation: the loop entered whatever the two counts are)
Auto3GetMongoReplicaCountNoTest ==
    /\ pc = "get_mongo3"
    /\ \E ok \in BOOLEAN :
         LET count == IF ok THEN Len(cfg.members) ELSE -1
         IN  /\ current_mongodb_replicas' = count
             /\ pc' = "loop3"
    /\ UNCHANGED << env_vars, current_k8s_replicas, local_vars, hist_vars, start >>

Auto3GetMongoReplicaCount ==
    /\ pc = "get_mongo3"
    /\ \E ok \in BOOLEAN :
         LET count == IF ok THEN Len(cfg.members) ELSE -1
         IN  /\ current_mongodb_replicas' = count
             /\ pc' = IF count # current_k8s_replicas THEN "done" ELSE "loop3"
    /\ UNCHANGED << env_vars, current_k8s_replicas, local_vars, hist_vars, start >>

\* "# Scale up": new_replicas = current_k8s_replicas + 1; scale_statefulset
Auto3ScaleUp ==
    /\ pc = "loop3"
    /\ current_k8s_replicas + 1 <= MaxReplicas
    /\ BeginTick("iteration")
    /\ new_replicas_count' = current_k8s_replicas + 1
    /\ \E ok \in BOOLEAN :
         IF ok
         THEN /\ sts' = current_k8s_replicas + 1
              /\ calls' = << PatchCall(current_k8s_replicas + 1) >>
              /\ pc' = "add_status3"
         ELSE /\ pc' = "crashed"
              /\ calls' = << >>
              /\ UNCHANGED sts
    /\ UNCHANGED << ready_pods, cfg, ext, current_k8s_replicas, current_mongodb_replicas,
                    ret, new_member_config, current_config, start >>

\* add_replica_to_mongo: replSetGetStatus and the renumbered member list
Add3GetStatus ==
    /\ pc = "add_status3"
    /\ \E ok \in BOOLEAN :
         IF ok
         THEN /\ fetched' = cfg
              /\ calls' = Append(calls, FetchCall(cfg))
              /\ current_config' = [version |-> FixedVersion,
                                    members |-> Enumerate(cfg.members, 0)]
              /\ pc' = "add_count3"
         ELSE /\ pc' = "get_count3"
              /\ UNCHANGED << fetched, calls, current_config >>
    /\ UNCHANGED << env_vars, current_k8s_replicas, current_mongodb_replicas, ret,
                    new_replicas_count, new_member_config, tick, last_reconfig, start >>

\* add_replica_to_mongo: the new member, its _id from get_mongo_replica_count()
\* (-1 on an error), its host mongo-<new_replicas - 1>
Add3NewMember(count) == Member(count, new_replicas_count - 1)

Add3GetCount ==
    /\ pc = "add_count3"
    /\ \E ok \in BOOLEAN :
         LET count == IF ok THEN Len(cfg.members) ELSE -1
         IN  /\ new_member_config' = Add3NewMember(count)
             /\ current_config' =
                    [current_config EXCEPT
                        !.members = Append(current_config.members, Add3NewMember(count))]
    /\ pc' = "add_reconfig3"
    /\ UNCHANGED << env_vars, current_k8s_replicas, current_mongodb_replicas, ret,
                    new_replicas_count, hist_vars, start >>

\* add_replica_to_mongo: replSetReconfig(..., force=True); an error is caught
Add3Reconfig ==
    /\ pc = "add_reconfig3"
    /\ \E outcome \in StoreOutcomes(current_config, TRUE) :
         ReplSetReconfig("add", current_config, TRUE, outcome)
    /\ pc' = "get_count3"
    /\ current_config' = NoConfig
    /\ new_member_config' = NoMember
    /\ UNCHANGED << sts, ready_pods, ext, current_k8s_replicas, current_mongodb_replicas,
                    ret, new_replicas_count, fetched, tick, start >>

\* current_k8s_replicas = get_replica_count() after the add and after the scale-down
Auto3GetReplicaCount ==
    /\ pc \in {"get_count3", "get_count3_end"}
    /\ \E ok \in BOOLEAN :
         IF ok
         THEN /\ current_k8s_replicas' = sts
              /\ pc' = IF pc = "get_count3" THEN "remove_status3" ELSE "loop3"
         ELSE pc' = "crashed" /\ UNCHANGED current_k8s_replicas
    /\ UNCHANGED << env_vars, current_mongodb_replicas, local_vars, hist_vars, start >>

\* remove_replica_from_mongo: the members whose host is not the replica's, renumbered
Remove3Members(members, replica) ==
    Enumerate(SelectSeq(members, LAMBDA m : m.host # replica), 0)

\* remove_replica_from_mongo: replSetGetStatus and the filtered member list
Remove3GetStatus ==
    /\ pc = "remove_status3"
    /\ \E ok \in BOOLEAN :
         IF ok
         THEN /\ fetched' = cfg
              /\ calls' = Append(calls, FetchCall(cfg))
              /\ current_config' =
                    [version |-> FixedVersion,
                     members |-> Remove3Members(cfg.members, new_replicas_count - 1)]
              /\ pc' = "remove_reconfig3"
         ELSE /\ pc' = "scale_down3"
              /\ UNCHANGED << fetched, calls, current_config >>
    /\ UNCHANGED << env_vars, current_k8s_replicas, current_mongodb_replicas, ret,
                    new_replicas_count, new_member_config, tick, last_reconfig, start >>

\* remove_replica_from_mongo: replSetReconfig(..., force=True); an error is caught
Remove3Reconfig ==
    /\ pc = "remove_reconfig3"
    /\ \E outcome \in StoreOutcomes(current_config, TRUE) :
         ReplSetReconfig("remove", current_config, TRUE, outcome)
    /\ pc' = "scale_down3"
    /\ current_config' = NoConfig
    /\ UNCHANGED << sts, ready_pods, ext, current_k8s_replicas, current_mongodb_replicas,
                    ret, new_replicas_count, new_member_config, fetched, tick, start >>

\* (mutation: the scale-down target not lowered)
FinalReplicasSame(new_replicas) ==
    IF new_replicas > MinFinalReplicas THEN new_replicas ELSE MinFinalReplicas

\* final_replicas = max(1, new_replicas - 1)
FinalReplicas(new_replicas) ==
    IF new_replicas - 1 > MinFinalReplicas THEN new_replicas - 1 ELSE MinFinalReplicas

\* "# Scale down": scale_statefulset(final_replicas), after the removal returned
Auto3ScaleDown ==
    /\ pc = "scale_down3"
    /\ \E ok \in BOOLEAN :
         IF ok
         THEN /\ sts' = FinalReplicas(new_replicas_count)
              /\ calls' = Append(calls, PatchCall(FinalReplicas(new_replicas_count)))
              /\ pc' = "get_count3_end"
         ELSE /\ pc' = "crashed"
              /\ UNCHANGED << sts, calls >>
    /\ UNCHANGED << ready_pods, cfg, ext, current_k8s_replicas, current_mongodb_replicas,
                    local_vars, fetched, tick, last_reconfig, start >>

Init3 == InitAt("start3")

Controller3 ==
    \/ Auto3Start
    \/ Auto3GetMongoReplicaCount
    \/ Auto3ScaleUp
    \/ Add3GetStatus
    \/ Add3GetCount
    \/ Add3Reconfig
    \/ Auto3GetReplicaCount
    \/ Remove3GetStatus
    \/ Remove3Reconfig
    \/ Auto3ScaleDown

Next3 == Controller3 \/ PodStarted \/ PodStopped

Spec3 == Init3 /\ [][Next3]_vars

Spec3X == Init3 /\ [][Next3 \/ ExternalReconfig]_vars

----------------------------------------------------------------------------
\* Properties

MaxOf(S) == CHOOSE x \in S : \A y \in S : y <= x
LastOf(seq) == seq[Len(seq)]
Dense(members) == \A i \in 1..Len(members) : members[i] = Member(i - 1, i - 1)
Issued(op) == \E i \in 1..Len(calls) : calls[i].op = op

\* C1: if the replica set started with at least three members, it has at least
\* three members in every state of autoscaler_Test.py, whatever calls fail
\* (so in particular after every completed iteration).
C1_FloorInvariant ==
    start.members >= MinMembers => Len(cfg.members) >= MinMembers

\* C1 witness: a scale_down iteration has completed whose removal brought the
\* replica set down to three members.
C1_Witness ==
    /\ pc = "loop"
    /\ tick.kind = "scale_down"
    /\ last_reconfig.kind = "remove"
    /\ last_reconfig.outcome = "ok"
    /\ start.members > MinMembers
    /\ Len(cfg.members) = MinMembers

\* History: the controller fetched the configuration it built last_reconfig on before
\* another writer replaced the store's configuration.
StaleReconfig ==
    /\ last_reconfig.kind # "none"
    /\ last_reconfig.base.version < last_reconfig.held.version

\* History: the store gave last_reconfig an answer about the configuration's version.
Answered == last_reconfig.outcome \in {"ok", "VersionConflict"}

\* C2: with no other writer, every reconfigure the store accepts from the controller
\* carries the version the store held plus one, and the store's version does not
\* go down.
C2_VersionStep ==
    last_reconfig.outcome = "ok" =>
        /\ last_reconfig.submitted.version = last_reconfig.held.version + 1
        /\ cfg.version >= last_reconfig.held.version

\* C3: a reconfigure built on a configuration older than the one the store holds is
\* answered VersionConflict (and so changes nothing).
C3_StaleRejected ==
    (StaleReconfig /\ Answered) => last_reconfig.outcome = "VersionConflict"

\* C4: when another writer got in between the fetch and the reconfigure of a scale-up
\* or scale-down, the reconfigure is answered VersionConflict, and the operation does
\* not return to the scaling loop before it has fetched the configuration again.
C4_ConflictRefetched ==
    (StaleReconfig /\ Answered /\ tick.kind \in {"scale_up", "scale_down"}) =>
        /\ last_reconfig.outcome = "VersionConflict"
        /\ pc = "loop" =>
              \E i, j \in 1..Len(calls) :
                  /\ i < j
                  /\ calls[i].op = "replSetReconfig" /\ ~calls[i].ok
                  /\ calls[j].op = "fetch"

\* C5: started at 5 declared replicas and 3 members, every completed iteration of the
\* mismatch loop has changed the membership by exactly one member, and when the loop
\* is left the two counts are equal.
C5_ConvergesByOne ==
    (start.sts = 5 /\ start.members = 3 /\ tick.kind = "drift" /\ pc \in {"drift", "loop"}) =>
        /\ Len(cfg.members) - tick.members \in {-1, 1}
        /\ pc = "loop" => sts = Len(cfg.members)

\* C6: a scale-down iteration that begins with the membership at the minimum issues
\* neither a StatefulSet patch nor a reconfigure, whatever the declared count.
C6_NoActionAtFloor ==
    (tick.kind = "scale_down" /\ tick.members = MinMembers) =>
        ~Issued("patch") /\ ~Issued("replSetReconfig")

\* C7: from a fetched configuration with members {0, mongo-0} .. {n-1, mongo-(n-1)} at
\* version v, scale-up submits those members followed by {n, mongo-n}, at version v+1.
C7_ScaleUpAppends ==
    (last_reconfig.kind = "add" /\ Dense(last_reconfig.base.members)) =>
        LET n == Len(last_reconfig.base.members)
        IN  last_reconfig.submitted =
                [version |-> last_reconfig.base.version + 1,
                 members |-> Append(last_reconfig.base.members, Member(n, n))]

\* C8: in a scale-down iteration the StatefulSet is patched only after the removing
\* reconfigure has succeeded.
C8_PatchAfterRemove ==
    (tick.kind = "scale_down" /\ Issued("patch")) =>
        last_reconfig.kind = "remove" /\ last_reconfig.outcome = "ok"

\* C9: the adding reconfigure is submitted, after the patch, only for a host that is
\* addressable when it is submitted.
C9_AddAfterAddressable ==
    last_reconfig.kind = "add" =>
        /\ calls[1].op = "patch"
        /\ last_reconfig.host_ready

\* C10: the _id of an added member is the largest _id of the fetched configuration
\* plus one, and is the _id of no member of that configuration.
C10_FreshId ==
    last_reconfig.kind = "add" =>
        LET new_id == LastOf(last_reconfig.submitted.members).id
            ids == Ids(last_reconfig.base.members)
        IN  new_id = MaxOf(ids) + 1 /\ new_id \notin ids

\* History: how far apart two counts are.
Distance(a, b) == IF a >= b THEN a - b ELSE b - a

\* History: the current iteration is one of the scaling loop (scale_down or scale_up).
ScalingTick == tick.kind \in {"scale_down", "scale_up"}

\* C11: a removing reconfigure submits the fetched members without exactly the member
\* that has the largest _id, whatever the order of the fetched list.
C11_RemovesHighestId ==
    last_reconfig.kind = "remove" =>
        LET members == last_reconfig.base.members
            highest == MaxOf(Ids(members))
        IN  last_reconfig.submitted.members =
                SelectSeq(members, LAMBDA member : member.id # highest)

\* C12: in an iteration of the scaling loop that begins with the declared count and the
\* membership count different, no call moves the two counts further apart than they
\* were when the iteration began (no new scaling step is taken).
C12_NoScalingInDrift ==
    (ScalingTick /\ tick.sts # tick.members) =>
        Distance(sts, Len(cfg.members)) <= Distance(tick.sts, tick.members)

\* C13: an iteration of the mismatch loop leaves the declared count alone and moves the
\* membership toward it: it submits an adding reconfigure only when more replicas are
\* declared than there are members, a removing one only when fewer are, and when it
\* is over with more declared than members it has submitted an adding reconfigure.
C13_DriftTargetsDeclared ==
    tick.kind = "drift" =>
        /\ sts = tick.sts
        /\ ~Issued("patch")
        /\ last_reconfig.kind = "add" => tick.sts > tick.members
        /\ last_reconfig.kind = "remove" => tick.sts < tick.members
        /\ (pc = "drift" /\ tick.sts > tick.members) => Issued("replSetReconfig")

\* C16: an iteration of the scaling loop that begins with the declared count and the
\* membership count both below the minimum has, when it is over, patched the
\* StatefulSet upward first; it has not done nothing and has not scaled down.
C16_ScaleUpBelowFloor ==
    (ScalingTick /\ tick.sts < MinReplicas /\ tick.members < MinMembers /\ pc = "loop") =>
        /\ Len(calls) >= 1
        /\ calls[1].op = "patch"
        /\ calls[1].n > tick.sts

\* C18: once the scaling loop runs, no failing call ends it: auto_scale is never left
\* by an exception.
C18_LoopSurvives ==
    ScalingTick => pc # "crashed"

\* C19: no reconfigure the controller submits is forced.
C19_NeverForced ==
    last_reconfig.kind # "none" => ~last_reconfig.force

\* History: the reconfigure of the iteration that has just ended was rejected by the
\* store for the configuration it carried (a failure that no retry can cure).
TerminalFailure == last_reconfig.outcome = "InvalidConfig"

\* C15: after a scale-up or scale-down whose reconfigure failed for good, the step the
\* controller takes from the head of the scaling loop issues no call: it patches
\* nothing and reconfigures nothing.
C15_FailedStops ==
    [][(pc = "loop" /\ ScalingTick /\ TerminalFailure) =>
           /\ sts' = sts
           /\ cfg' = cfg
           /\ calls' \in {calls, << >>}]_vars

\* History: this step is replSetGetConfig in remove_last_replica_from_mongo returning a
\* configuration of at most the minimum number of members.
RemoveRejected ==
    /\ pc = "remove_get_config"
    /\ fetched' # NoConfig
    /\ Len(fetched'.members) <= MinMembers

\* History: the iteration of the mismatch loop that has just ended was a removal
\* refused for the minimum.
RejectedInDrift ==
    /\ pc = "drift"
    /\ tick.kind = "drift"
    /\ fetched # NoConfig
    /\ Len(fetched.members) <= MinMembers
    /\ last_reconfig.kind = "none"

\* C20: a removal that fetches at most the minimum number of members returns without
\* a reconfigure and leaves the store's configuration and the two cached counts as
\* they were, and the removal is not attempted again before the start-up mismatch
\* loop is left.
C20_FloorRejection ==
    [][/\ RemoveRejected =>
              /\ pc' = ret
              /\ UNCHANGED << cfg, current_k8s_replicas, current_mongodb_replicas >>
       /\ RejectedInDrift => pc' # "remove_get_config"]_vars

----------------------------------------------------------------------------
\* Runs of autoscaler_Test.py in which no call fails

\* A step of auto_scale in which a call raises: an exception that leaves auto_scale,
\* get_mongo_replica_count returning -1, replSetGetConfig raising inside
\* remove_last_replica_from_mongo, or a reconfigure the store does not accept.
CallFails ==
    \/ pc' = "crashed"
    \/ current_mongodb_replicas' = -1
    \/ pc = "remove_get_config" /\ fetched' = NoConfig
    \/ last_reconfig' # last_reconfig /\ last_reconfig'.outcome \notin {"none", "ok"}

\* The steps of auto_scale in which every call succeeds.
ControllerLive == Controller /\ ~CallFails

NextLive == ControllerLive \/ PodStarted \/ PodStopped

\* auto_scale runs in a process of its own and nothing but an exception stops it: a
\* step it can take is taken.
SpecLive == Init /\ [][NextLive]_vars /\ WF_vars(ControllerLive)

\* History: auto_scale is at the head of its scaling loop, or has been left.
AtLoopHead == pc \in {"loop", "crashed"}

\* C14: whenever the declared count and the membership count differ, they are equal
\* again at some later time.
C14_EventuallyEqual ==
    (sts # Len(cfg.members)) ~> (sts = Len(cfg.members))

\* C17: every iteration ends: the start-up mismatch loop is left and auto_scale comes
\* back to the head of its scaling loop again and again, so no call is repeated
\* without bound.
C17_TickTerminates == []<>AtLoopHead

----------------------------------------------------------------------------
\* Properties (continued)

\* History: the list seq without its i-th element.
Without(seq, i) == SubSeq(seq, 1, i - 1) \o SubSeq(seq, i + 1, Len(seq))

\* C21: no iteration, of the mismatch loop or of the scaling loop, changes the declared
\* count or the membership by more than one, and every configuration submitted is the
\* fetched one with one member appended or with one member taken out.
C21_OneMemberPerStep ==
    tick.kind # "none" =>
        /\ Distance(sts, tick.sts) <= 1
        /\ Distance(Len(cfg.members), tick.members) <= 1
        /\ last_reconfig.kind = "add" =>
               \E member \in {LastOf(last_reconfig.submitted.members)} :
                   last_reconfig.submitted.members =
                       Append(last_reconfig.base.members, member)
        /\ last_reconfig.kind = "remove" =>
               \E i \in 1..Len(last_reconfig.base.members) :
                   last_reconfig.submitted.members = Without(last_reconfig.base.members, i)

\* C22: an iteration of the scaling loop works from the counts as they are when it
\* begins: its target is one away from the declared count of that moment, and the
\* member it builds is numbered with the membership count of that moment.
C22_FreshCounts ==
    ScalingTick =>
        /\ new_replicas_count \in {tick.sts - 1, tick.sts + 1}
        /\ new_member_config # NoMember => new_member_config.id = tick.members

\* C23: no iteration of the mismatch loop is entered on a comparison with the error
\* value -1 of get_mongo_replica_count, and none computes its target from it.
C23_NoNegativeCount ==
    tick.kind = "drift" => current_mongodb_replicas >= 0

----------------------------------------------------------------------------
\* scale_statefulset called on its own (src/autoscaler_Test.py)

\* Replica counts a caller may pass; the API server takes a patch to 0 replicas.
TargetInputs == 0..MaxReplicas

\* scale_statefulset(new_replicas): the function patches whatever it is given, and an
\* exception of the API call leaves it
CallScaleStatefulset(new_replicas) ==
    /\ pc = "call"
    /\ \E ok \in BOOLEAN :
         IF ok
         THEN /\ ScaleStatefulset(new_replicas)
              /\ calls' = << PatchCall(new_replicas) >>
              /\ pc' = "called"
         ELSE /\ pc' = "crashed"
              /\ UNCHANGED << sts, current_k8s_replicas, calls >>
    /\ UNCHANGED << ready_pods, cfg, ext, current_mongodb_replicas, local_vars,
                    fetched, tick, last_reconfig, start >>

InitCall == InitAt("call")

NextCall ==
    \/ \E new_replicas \in TargetInputs : CallScaleStatefulset(new_replicas)
    \/ PodStarted
    \/ PodStopped

SpecCall == InitCall /\ [][NextCall]_vars

StepCompleted == tick.kind \in {"drift", "scale_down", "scale_up"} /\ pc \in {"drift", "loop"}

\* C25: with no other writer, after every completed iteration the cached
\* current_k8s_replicas is the declared count and the cached current_mongodb_replicas
\* is the number of members the store holds.
C25_CachedCountsExact ==
    StepCompleted =>
        /\ current_k8s_replicas = sts
        /\ current_mongodb_replicas = Len(cfg.members)

\* History: the members carry _id 0, 1, 2, ... in list order and no two share a host.
WellNumbered(members) ==
    /\ \A i \in 1..Len(members) : members[i].id = i - 1
    /\ \A i, j \in 1..Len(members) : members[i].host = members[j].host => i = j

C27_FailedReconfigAtomic ==
    [][(/\ pc \in {"add_reconfig", "remove_reconfig"}
        /\ last_reconfig'.outcome \notin {"none", "ok"}) =>
           /\ cfg' = cfg
           /\ current_mongodb_replicas' = current_mongodb_replicas
           /\ sts' = sts
           /\ ScalingTick => sts' = new_replicas_count]_vars

\* C27 witness: a scale_up or scale_down has ended whose reconfigure raised: the store
\* holds what it held, the declared count is the patched one.
C27_Witness ==
    /\ pc = "loop"
    /\ ScalingTick
    /\ last_reconfig.outcome \notin {"none", "ok"}
    /\ cfg = last_reconfig.held
    /\ sts = new_replicas_count
    /\ sts # tick.sts

----------------------------------------------------------------------------
\* Runs of autoscaler_Test.py as it stands (random_int = 0) in which no call fails

\* auto_scale with random_int = 0: scale_down is the only request
ControllerDown ==
    /\ \/ AutoScaleGetReplicaCount
       \/ AutoScaleGetMongoReplicaCount
       \/ DriftScaleStatefulset
       \/ DriftRemove
       \/ DriftExit
       \/ AutoScaleLoop(RandomLow)
       \/ RemoveGetConfig
       \/ RemoveReconfig
    /\ ~CallFails

\* the declared count never goes up in these runs, so no pod starts
NextDown == ControllerDown \/ PodStopped

SpecDown == Init /\ [][NextDown]_vars

\* C28: started with n >= 3 declared replicas and n members, with scale-down requests
\* only and no failing call, every completed iteration that began above three has
\* brought both counts down by one, to equal values, and every iteration that began at
\* three has issued no call and left both at three.
C28_ScaleDownToFloor ==
    (/\ start.sts = start.members
     /\ start.sts >= MinReplicas
     /\ tick.kind = "scale_down"
     /\ pc = "loop") =>
        IF tick.sts > MinReplicas
        THEN /\ sts = tick.sts - 1
             /\ Len(cfg.members) = tick.members - 1
             /\ sts = Len(cfg.members)
        ELSE /\ calls = << >>
             /\ sts = MinReplicas
             /\ Len(cfg.members) = MinMembers

\* C28 witness: started above three, the two counts have come down to three and an
\* iteration has since ended without a call.
C28_Witness ==
    /\ start.sts = start.members
    /\ start.sts > MinReplicas
    /\ tick.kind = "scale_down"
    /\ tick.sts = MinReplicas
    /\ pc = "loop"
    /\ calls = << >>
    /\ Len(cfg.members) = MinMembers

----------------------------------------------------------------------------
\* Runs of autoscale/autoscaler3_Test.py in which no call fails

\* A step of autoscaler3_Test.py in which a call raises: an exception that leaves
\* auto_scale, get_mongo_replica_count returning -1, replSetGetStatus raising inside
\* add_replica_to_mongo or remove_replica_from_mongo, or a reconfigure the store does
\* not accept.
CallFails3 ==
    \/ pc' = "crashed"
    \/ current_mongodb_replicas' = -1
    \/ pc = "add_status3" /\ pc' = "get_count3"
    \/ pc = "add_count3" /\ new_member_config'.id = -1
    \/ pc = "remove_status3" /\ pc' = "scale_down3"
    \/ last_reconfig' # last_reconfig /\ last_reconfig'.outcome \notin {"none", "ok"}

Controller3Live == Controller3 /\ ~CallFails3

Next3Live == Controller3Live \/ PodStarted \/ PodStopped

Spec3Live == Init3 /\ [][Next3Live]_vars

C30_MismatchReturns ==
    /\ (/\ start.sts # start.members \/ current_mongodb_replicas = -1
        /\ pc \notin {"start3", "get_mongo3", "crashed"}) => pc = "done"
    /\ pc = "done" =>
           /\ ~ENABLED Controller3
           /\ calls = << >>
           /\ last_reconfig = NoReconfig
           /\ sts = start.sts
           /\ Len(cfg.members) = start.members
           /\ cfg.version \in InitVersions

\* C30 witness: auto_scale has returned after a membership read that failed, although
\* the declared count is the number of members.
C30_Witness ==
    /\ pc = "done"
    /\ current_mongodb_replicas = -1
    /\ sts = Len(cfg.members)

====
